---------------------------- MODULE Spec2Model ----------------------------
(***************************************************************************)
(* Model of src/src/mcp_app/__init__.py: the FastMCP demo application.     *)
(*                                                                         *)
(* Texts are sequences of one-character strings, so that strip, split and  *)
(* lower are computed character by character as Python computes them.     *)
(*                                                                         *)
(* Four specifications share the variables:                                *)
(*   Spec          the CLI driver main() from the freshly imported module  *)
(*   SpecHandlers  the tool, resource and prompt handlers on bounded input *)
(*   SpecRegistry  a client calling into the registry built at import      *)
(*   SpecRegister  the registration mechanism from an empty registry       *)
(***************************************************************************)
EXTENDS Integers, Sequences, FiniteSets, TLC

VARIABLES
    registry,   \* the capabilities registered on MCP_SERVER
    pc,         \* main(): index of the statement to execute next
    sub,        \* position inside the helper the current statement calls
    out,        \* what has been printed to standard output, in order
    calls,      \* the invocations made so far, in order
    reads,      \* runner(): the state of each _read_resource coroutine
    outputs,    \* _sample_mcp_tool_output(): the list of (name, result) built
    failedAt,   \* the call whose exception left main(), or NoFailure
    arg,        \* SpecHandlers: the input handed to a handler
    last,       \* the last handler or registry call and its outcome
    seen,       \* every (call, outcome) pair a client has observed
    ncalls      \* number of calls a client has made

driverVars == <<pc, sub, out, calls, reads, outputs, failedAt>>
handlerVars == <<arg>>
clientVars == <<seen, ncalls>>
vars ==
    <<registry, pc, sub, out, calls, reads, outputs, failedAt, arg, last, seen,
      ncalls>>

-----------------------------------------------------------------------------
(* Bounds *)

\* longest generated text handed to a handler
MaxLen == 5
\* most content chunks one read_resource call returns
MaxChunks == 3
\* most calls a client makes in one run of SpecRegistry or SpecRegister
MaxCalls == 3

-----------------------------------------------------------------------------
(* String literals of the source. "grave" stands for the grave accent, a     *)
(* character a TLA+ string cannot hold.                                     *)

\* line 16: the tool is registered under its function name
SpotlightName ==
    <<"s", "p", "o", "t", "l", "i", "g", "h", "t">>

\* line 19
SpotlightPrefix ==
    <<"M", "C", "P", " ", "s", "p", "o", "t", "l", "i", "g", "h", "t", " ",
      "-", ">", " ", "H", "e", "l", "l", "o", ",", " ">>

\* line 19
SpotlightSuffix ==
    <<"!">>

\* line 23
SummarizeName ==
    <<"s", "u", "m", "m", "a", "r", "i", "z", "e">>

\* line 29
NoContent ==
    <<"N", "o", " ", "c", "o", "n", "t", "e", "n", "t", " ", "t", "o", " ",
      "s", "u", "m", "m", "a", "r", "i", "z", "e", ".">>

\* line 30
SummaryPrefix ==
    <<"S", "u", "m", "m", "a", "r", "y", ":", " ">>

\* line 30
SummarySuffix ==
    <<".">>

\* line 34
WordCountName ==
    <<"w", "o", "r", "d", "_", "c", "o", "u", "n", "t">>

\* line 42
PrimerUri ==
    <<"r", "e", "s", "o", "u", "r", "c", "e", ":", "/", "/", "m", "c", "p",
      "/", "p", "r", "i", "m", "e", "r">>

\* lines 49-56
PrimerText ==
    <<"R", "e", "s", "o", "u", "r", "c", "e", "s", ":", " ", "f", "i", "l",
      "e", "-", "l", "i", "k", "e", " ", "d", "a", "t", "a", " ", "s", "u",
      "r", "f", "a", "c", "e", "s", " ", "e", "x", "p", "o", "s", "e", "d",
      " ", "v", "i", "a", " ", "U", "R", "I", "s", " ", "s", "o", " ", "a",
      "g", "e", "n", "t", "s", " ", "c", "a", "n", " ", "r", "e", "a", "d",
      " ", "c", "o", "n", "t", "e", "x", "t", " ", "s", "u", "c", "h", " ",
      "a", "s", " ", "d", "o", "c", "s", " ", "o", "r", " ", "A", "P", "I",
      " ", "o", "u", "t", "p", "u", "t", ".", "\n", "T", "o", "o", "l",
      "s", ":", " ", "c", "a", "l", "l", "a", "b", "l", "e", " ", "f", "u",
      "n", "c", "t", "i", "o", "n", "s", " ", "(", "w", "i", "t", "h", " ",
      "h", "u", "m", "a", "n", " ", "a", "p", "p", "r", "o", "v", "a", "l",
      ")", " ", "t", "h", "a", "t", " ", "l", "e", "t", " ", "a", "n", " ",
      "L", "L", "M", " ", "t", "r", "i", "g", "g", "e", "r", " ", "s", "i",
      "d", "e", " ", "e", "f", "f", "e", "c", "t", "s", " ", "o", "r", " ",
      "c", "o", "m", "p", "u", "t", "a", "t", "i", "o", "n", "s", ".",
      "\n", "P", "r", "o", "m", "p", "t", "s", ":", " ", "c", "u", "r",
      "a", "t", "e", "d", " ", "t", "e", "m", "p", "l", "a", "t", "e", "s",
      " ", "t", "h", "a", "t", " ", "s", "t", "a", "n", "d", "a", "r", "d",
      "i", "z", "e", " ", "m", "u", "l", "t", "i", "-", "s", "t", "e", "p",
      " ", "i", "n", "s", "t", "r", "u", "c", "t", "i", "o", "n", "s", " ",
      "f", "o", "r", " ", "c", "o", "m", "m", "o", "n", " ", "w", "o", "r",
      "k", "f", "l", "o", "w", "s", ".">>

\* line 60, with the path misspelt
CapabilityUriTemplate_singular ==
    <<"r", "e", "s", "o", "u", "r", "c", "e", ":", "/", "/", "m", "c", "p",
      "/", "r", "e", "s", "o", "u", "r", "c", "e", "/", "{", "c", "a", "p",
      "a", "b", "i", "l", "i", "t", "y", "}">>

\* line 60
CapabilityUriTemplate ==
    <<"r", "e", "s", "o", "u", "r", "c", "e", ":", "/", "/", "m", "c", "p",
      "/", "r", "e", "s", "o", "u", "r", "c", "e", "s", "/", "{", "c", "a",
      "p", "a", "b", "i", "l", "i", "t", "y", "}">>

\* line 68
ResourcesName ==
    <<"r", "e", "s", "o", "u", "r", "c", "e", "s">>

\* line 68
ResourcesText ==
    <<"S", "t", "r", "e", "a", "m", " ", "l", "a", "r", "g", "e", " ", "c",
      "o", "n", "t", "e", "x", "t", " ", "o", "r", " ", "s", "t", "r", "u",
      "c", "t", "u", "r", "e", "d", " ", "p", "a", "y", "l", "o", "a", "d",
      "s", " ", "v", "i", "a", " ", "U", "R", "I", "s", ".">>

\* line 69
ToolsName ==
    <<"t", "o", "o", "l", "s">>

\* line 69
ToolsText ==
    <<"W", "r", "a", "p", " ", "b", "u", "s", "i", "n", "e", "s", "s", " ",
      "l", "o", "g", "i", "c", " ", "s", "o", " ", "a", "n", " ", "L", "L",
      "M", " ", "c", "a", "n", " ", "r", "e", "q", "u", "e", "s", "t", " ",
      "a", "c", "t", "i", "o", "n", "s", " ", "o", "n", " ", "d", "e", "m",
      "a", "n", "d", ".">>

\* line 70
PromptsName ==
    <<"p", "r", "o", "m", "p", "t", "s">>

\* line 70
PromptsText ==
    <<"S", "h", "a", "r", "e", " ", "p", "r", "o", "v", "e", "n", " ", "i",
      "n", "s", "t", "r", "u", "c", "t", "i", "o", "n", "s", " ", "s", "o",
      " ", "u", "s", "e", "r", "s", " ", "a", "r", "e", " ", "p", "r", "o",
      "d", "u", "c", "t", "i", "v", "e", " ", "i", "n", "s", "t", "a", "n",
      "t", "l", "y", ".">>

\* line 72
UnknownCapability ==
    <<"U", "n", "k", "n", "o", "w", "n", " ", "c", "a", "p", "a", "b", "i",
      "l", "i", "t", "y", ".">>

\* line 79
OrientationPromptName ==
    <<"o", "r", "i", "e", "n", "t", "a", "t", "i", "o", "n", "_", "p", "r",
      "o", "m", "p", "t">>

\* lines 84, 104
SystemRole ==
    <<"s", "y", "s", "t", "e", "m">>

\* lines 85-86
SystemContent ==
    <<"Y", "o", "u", " ", "a", "r", "e", " ", "a", "n", " ", "M", "C", "P",
      " ", "o", "n", "b", "o", "a", "r", "d", "i", "n", "g", " ", "a", "s",
      "s", "i", "s", "t", "a", "n", "t", " ", "w", "h", "o", " ", "r", "e",
      "f", "e", "r", "e", "n", "c", "e", "s", " ", "r", "e", "g", "i", "s",
      "t", "e", "r", "e", "d", " ", "r", "e", "s", "o", "u", "r", "c", "e",
      "s", " ", "b", "e", "f", "o", "r", "e", " ", "c", "a", "l", "l", "i",
      "n", "g", " ", "t", "o", "o", "l", "s", ".">>

\* line 89
UserRole ==
    <<"u", "s", "e", "r">>

\* line 91
UserPrefix ==
    <<"P", "r", "o", "j", "e", "c", "t", ":", " ">>

\* lines 91-94
UserSuffix ==
    <<".", "\n", "1", ".", " ", "R", "e", "a", "d", " ", "r", "e", "s",
      "o", "u", "r", "c", "e", ":", "/", "/", "m", "c", "p", "/", "p", "r",
      "i", "m", "e", "r", ".", "\n", "2", ".", " ", "A", "s", "k", " ",
      "t", "h", "e", " ", "grave", "s", "p", "o", "t", "l", "i", "g", "h",
      "t", "grave", " ", "t", "o", "o", "l", " ", "f", "o", "r", " ", "a",
      " ", "g", "r", "e", "e", "t", "i", "n", "g", ".", "\n", "3", ".",
      " ", "S", "u", "m", "m", "a", "r", "i", "z", "e", " ", "f", "i", "n",
      "d", "i", "n", "g", "s", " ", "f", "o", "r", " ", "t", "h", "e", " ",
      "o", "p", "e", "r", "a", "t", "o", "r", ".">>

\* line 104
IntroContent ==
    <<"Y", "o", "u", " ", "i", "n", "t", "r", "o", "d", "u", "c", "e", " ",
      "t", "h", "e", " ", "M", "o", "d", "e", "l", " ", "C", "o", "n", "t",
      "e", "x", "t", " ", "P", "r", "o", "t", "o", "c", "o", "l", " ", "t",
      "o", " ", "n", "e", "w", " ", "u", "s", "e", "r", "s", ".">>

\* line 105
HumanRole ==
    <<"h", "u", "m", "a", "n">>

\* line 105
GreetPrefix ==
    <<"G", "r", "e", "e", "t", " ">>

\* line 105
GreetSuffix ==
    <<" ", "a", "n", "d", " ", "m", "e", "n", "t", "i", "o", "n", " ", "M",
      "C", "P", ".">>

\* lines 109, 134, 173
LabelSeparator ==
    <<":", " ">>

\* lines 110, 135, 149, 174
Newline ==
    <<"\n">>

\* line 121
SummarizeSample ==
    <<"L", "a", "n", "g", "C", "h", "a", "i", "n", " ", "o", "r", "c", "h",
      "e", "s", "t", "r", "a", "t", "e", "s", " ", "p", "r", "o", "m", "p",
      "t", "s", " ", "w", "h", "i", "l", "e", " ", "M", "C", "P", " ", "s",
      "t", "a", "n", "d", "a", "r", "d", "i", "z", "e", "s", " ", "t", "o",
      "o", "l", "i", "n", "g", ".">>

\* line 127
WordCountSample ==
    <<"F", "a", "s", "t", "M", "C", "P", " ", "k", "e", "e", "p", "s", " ",
      "r", "a", "p", "i", "d", " ", "p", "r", "o", "t", "o", "t", "y", "p",
      "i", "n", "g", " ", "i", "n", "s", "i", "d", "e", " ", "a", " ", "s",
      "i", "n", "g", "l", "e", " ", "p", "r", "o", "c", "e", "s", "s">>

\* line 157
DeepDiveUri ==
    <<"r", "e", "s", "o", "u", "r", "c", "e", ":", "/", "/", "m", "c", "p",
      "/", "r", "e", "s", "o", "u", "r", "c", "e", "s", "/", "t", "o", "o",
      "l", "s">>

\* line 162
PrimerLabel ==
    <<"P", "r", "i", "m", "e", "r", " ", "-", ">", " ">>

\* line 164
DeepDiveLabel ==
    <<"\n", "D", "e", "e", "p", " ", "d", "i", "v", "e", " ", "(", "t",
      "o", "o", "l", "s", ")", " ", "-", ">", " ">>

\* line 172
DemoWorkspace ==
    <<"D", "e", "m", "o", " ", "W", "o", "r", "k", "s", "p", "a", "c", "e">>

\* line 178
Banner ==
    <<"H", "e", "l", "l", "o", " ", "f", "r", "o", "m", " ", "t", "h", "e",
      " ", "M", "C", "P", " ", "d", "e", "m", "o", "!">>

\* line 179
ChatHeader ==
    <<"\n", "-", "-", "-", " ", "L", "a", "n", "g", "C", "h", "a", "i",
      "n", " ", "s", "c", "r", "i", "p", "t", "e", "d", " ", "c", "h", "a",
      "t", " ", "-", "-", "-">>

\* lines 180, 186
ExplorerName ==
    <<"L", "a", "n", "g", "C", "h", "a", "i", "n", " ", "+", " ", "M", "C",
      "P", " ", "e", "x", "p", "l", "o", "r", "e", "r">>

\* line 181
ResourcesHeader ==
    <<"\n", "-", "-", "-", " ", "M", "C", "P", " ", "r", "e", "s", "o",
      "u", "r", "c", "e", "s", " ", "-", "-", "-">>

\* line 183
PromptsHeader ==
    <<"\n", "-", "-", "-", " ", "M", "C", "P", " ", "p", "r", "o", "m",
      "p", "t", "s", " ", "-", "-", "-">>

\* line 185
ToolsHeader ==
    <<"\n", "-", "-", "-", " ", "F", "a", "s", "t", "M", "C", "P", " ",
      "t", "o", "o", "l", " ", "r", "e", "s", "u", "l", "t", "s", " ", "-",
      "-", "-">>

-----------------------------------------------------------------------------
(* Python string operations *)

\* str.isspace() characters that occur in the model's alphabet
Whitespace == {" ", "\t", "\n"}

IsSpace(c) == c \in Whitespace

LowerLetters ==
    <<"a", "b", "c", "d", "e", "f", "g", "h", "i", "j", "k", "l", "m",
      "n", "o", "p", "q", "r", "s", "t", "u", "v", "w", "x", "y", "z">>

UpperLetters ==
    <<"A", "B", "C", "D", "E", "F", "G", "H", "I", "J", "K", "L", "M",
      "N", "O", "P", "Q", "R", "S", "T", "U", "V", "W", "X", "Y", "Z">>

\* str.lower() on one character
LowerChar(c) ==
    IF \E i \in DOMAIN UpperLetters : UpperLetters[i] = c
    THEN LowerLetters[CHOOSE i \in DOMAIN UpperLetters : UpperLetters[i] = c]
    ELSE c

\* str.lower()
Lower(s) == [i \in 1..Len(s) |-> LowerChar(s[i])]

RECURSIVE LStrip(_)
LStrip(s) ==
    IF s # <<>> /\ IsSpace(Head(s)) THEN LStrip(Tail(s)) ELSE s

RECURSIVE RStrip(_)
RStrip(s) ==
    IF s # <<>> /\ IsSpace(s[Len(s)]) THEN RStrip(SubSeq(s, 1, Len(s) - 1)) ELSE s

\* str.strip()
Strip(s) == RStrip(LStrip(s))

\* str.split(sep): the pieces between occurrences of the character sep;
\* always at least one piece, empty pieces kept
RECURSIVE SplitOn(_, _, _)
SplitOn(s, sep, piece) ==
    IF s = <<>> THEN <<piece>>
    ELSE IF Head(s) = sep THEN <<piece>> \o SplitOn(Tail(s), sep, <<>>)
    ELSE SplitOn(Tail(s), sep, Append(piece, Head(s)))

Split(s, sep) == SplitOn(s, sep, <<>>)

\* str.split(): the maximal pieces free of whitespace; no empty pieces
RECURSIVE SplitWhitespaceFrom(_, _)
SplitWhitespaceFrom(s, piece) ==
    IF s = <<>> THEN (IF piece = <<>> THEN <<>> ELSE <<piece>>)
    ELSE IF IsSpace(Head(s))
         THEN (IF piece = <<>> THEN <<>> ELSE <<piece>>)
              \o SplitWhitespaceFrom(Tail(s), <<>>)
    ELSE SplitWhitespaceFrom(Tail(s), Append(piece, Head(s)))

SplitWhitespace(s) == SplitWhitespaceFrom(s, <<>>)

IsLetter(c) ==
    \/ \E i \in DOMAIN LowerLetters : LowerLetters[i] = c
    \/ \E i \in DOMAIN UpperLetters : UpperLetters[i] = c

UpperChar(c) ==
    IF \E i \in DOMAIN LowerLetters : LowerLetters[i] = c
    THEN UpperLetters[CHOOSE i \in DOMAIN LowerLetters : LowerLetters[i] = c]
    ELSE c

\* str.title(): a letter that follows a non-letter is upper-cased, any other
\* letter lower-cased
Title(s) ==
    [i \in 1..Len(s) |->
        IF i = 1 \/ ~IsLetter(s[i - 1]) THEN UpperChar(s[i]) ELSE LowerChar(s[i])]

\* sep.join(lines)
RECURSIVE Join(_, _)
Join(lines, sep) ==
    IF lines = <<>> THEN <<>>
    ELSE IF Len(lines) = 1 THEN lines[1]
    ELSE lines[1] \o sep \o Join(Tail(lines), sep)

DigitChars == <<"0", "1", "2", "3", "4", "5", "6", "7", "8", "9">>

\* str(n) of a natural number
RECURSIVE Decimal(_)
Decimal(n) ==
    IF n < 10 THEN <<DigitChars[n + 1]>>
    ELSE Append(Decimal(n \div 10), DigitChars[(n % 10) + 1])

\* bytes of an ASCII text, one per character, and bytes.decode("utf-8", "replace")
Encode(text) == [i \in 1..Len(text) |-> <<"byte", text[i]>>]

Decode(data) == [i \in 1..Len(data) |-> data[i][2]]

-----------------------------------------------------------------------------
(* Tool handlers *)

spotlight(name) == SpotlightPrefix \o name \o SpotlightSuffix

\* summarize without the second strip (line 27)
summarize_unstripped(text) ==
    LET sentences == Split(Strip(text), ".")
        first_sentence == sentences[1]
    IN  IF first_sentence = <<>>
        THEN NoContent
        ELSE SummaryPrefix \o first_sentence \o SummarySuffix

summarize(text) ==
    LET sentences == Split(Strip(text), ".")
        first_sentence == Strip(sentences[1])
    IN  IF first_sentence = <<>>
        THEN NoContent
        ELSE SummaryPrefix \o first_sentence \o SummarySuffix

\* word_count splitting on single blanks, text.split(" "), (line 37)
word_count_blank(text) ==
    LET words == SelectSeq(Split(text, " "), LAMBDA chunk : chunk # <<>>)
    IN  [words |-> Len(words)]

word_count(text) ==
    LET words == SelectSeq(SplitWhitespace(text), LAMBDA chunk : chunk # <<>>)
    IN  [words |-> Len(words)]

(* Resource handlers *)

mcp_primer_resource == PrimerText

sections ==
    (ResourcesName :> ResourcesText)
    @@ (ToolsName :> ToolsText)
    @@ (PromptsName :> PromptsText)

\* capability_resource without lower() (line 72)
capability_resource_exact(capability) ==
    IF capability \in DOMAIN sections THEN sections[capability] ELSE UnknownCapability

capability_resource(capability) ==
    LET key == Lower(capability)
    IN  IF key \in DOMAIN sections THEN sections[key] ELSE UnknownCapability

(* Prompt handler *)

orientation_prompt(project) ==
    << [role |-> SystemRole, content |-> SystemContent],
       [role |-> UserRole, content |-> UserPrefix \o project \o UserSuffix] >>

-----------------------------------------------------------------------------
(* Inputs *)

TextAlphabet == {"a", "T", " ", "\n", "."}

RECURSIVE TextsUpTo(_)
TextsUpTo(n) ==
    IF n = 0 THEN {<<>>}
    ELSE LET shorter == TextsUpTo(n - 1)
         IN  shorter \cup {Append(t, c) : t \in {s \in shorter : Len(s) = n - 1},
                                           c \in TextAlphabet}

Texts == TextsUpTo(MaxLen)

\* every spelling of name in upper and lower case letters
CaseVariants(name) ==
    {[i \in 1..Len(name) |-> IF mask[i] THEN UpperChar(name[i]) ELSE name[i]] :
        mask \in [1..Len(name) -> BOOLEAN]}

CapabilityNames == {ResourcesName, ToolsName, PromptsName}

\* near misses of the capability names: a prefix, an extension, padding
NearMisses ==
    UNION {{SubSeq(n, 1, Len(n) - 1), n \o <<"s">>, n \o <<" ">>, <<" ">> \o n,
            <<"\n">> \o UpperChar(n[1]) \o Tail(n)} : n \in CapabilityNames}

HelloWorld ==
    <<"H", "e", "l", "l", "o", " ", "w", "o", "r", "l", "d", ".", " ",
      "M", "o", "r", "e", " ", "t", "e", "x", "t", ".">>

Bogus == <<"b", "o", "g", "u", "s">>

Nope == <<"n", "o", "p", "e">>

HandlerInputs ==
    Texts
    \cup UNION {CaseVariants(n) : n \in CapabilityNames}
    \cup NearMisses
    \cup {HelloWorld, Bogus, Nope, ExplorerName, SummarizeSample, WordCountSample,
          DemoWorkspace}

-----------------------------------------------------------------------------
(* SpecHandlers: each handler applied to a bounded input *)

NoCall == [op |-> "none"]

NoFailure == [fn |-> "none", arg |-> <<>>]

\* main() is not running
DriverIdle ==
    /\ pc = 0 /\ sub = "idle" /\ out = <<>> /\ calls = <<>>
    /\ reads = <<>> /\ outputs = <<>> /\ failedAt = NoFailure

ClientIdle == seen = {} /\ ncalls = 0

InitHandlers ==
    /\ DriverIdle
    /\ ClientIdle
    /\ registry = {}
    /\ arg \in HandlerInputs
    /\ last = NoCall

Returned(op, result) ==
    /\ last' = [op |-> op, arg |-> arg, result |-> result]
    /\ UNCHANGED <<registry, driverVars, handlerVars, clientVars>>

CallSpotlight == Returned("spotlight", spotlight(arg))

CallSummarize == Returned("summarize", summarize(arg))

CallWordCount == Returned("word_count", word_count(arg))

CallCapabilityResource == Returned("capability_resource", capability_resource(arg))

CallOrientationPrompt == Returned("orientation_prompt", orientation_prompt(arg))

NextHandlers ==
    \/ CallSpotlight
    \/ CallSummarize
    \/ CallWordCount
    \/ CallCapabilityResource
    \/ CallOrientationPrompt

SpecHandlers == InitHandlers /\ [][NextHandlers]_vars
-----------------------------------------------------------------------------
(* Capability registry *)

\* the registration that drops the word_count decorator
Registrations_without_word_count ==
    << [kind |-> "tool", identifier |-> SpotlightName, handler |-> "spotlight"],
       [kind |-> "tool", identifier |-> SummarizeName, handler |-> "summarize"],
       [kind |-> "resource", identifier |-> PrimerUri,
        handler |-> "mcp_primer_resource"],
       [kind |-> "resource", identifier |-> CapabilityUriTemplate,
        handler |-> "capability_resource"],
       [kind |-> "prompt", identifier |-> OrientationPromptName,
        handler |-> "orientation_prompt"] >>

\* The decorators run at import, in source order. A tool or prompt is
\* registered under its function's name, a resource under the decorator's URI.
Registrations ==
    << [kind |-> "tool", identifier |-> SpotlightName, handler |-> "spotlight"],
       [kind |-> "tool", identifier |-> SummarizeName, handler |-> "summarize"],
       [kind |-> "tool", identifier |-> WordCountName, handler |-> "word_count"],
       [kind |-> "resource", identifier |-> PrimerUri,
        handler |-> "mcp_primer_resource"],
       [kind |-> "resource", identifier |-> CapabilityUriTemplate,
        handler |-> "capability_resource"],
       [kind |-> "prompt", identifier |-> OrientationPromptName,
        handler |-> "orientation_prompt"] >>

Lookup(reg, kind, identifier) ==
    {e \in reg : e.kind = kind /\ e.identifier = identifier}

\* register on a duplicate replaces the entry instead of failing
register_overwriting(reg, entry) ==
    [status |-> "ok",
     registry |-> (reg \ Lookup(reg, entry.kind, entry.identifier)) \cup {entry}]

\* register(kind, identifier, handler): the outcome and the registry after it
register(reg, entry) ==
    IF Lookup(reg, entry.kind, entry.identifier) # {}
    THEN [status |-> "DuplicateCapabilityError", registry |-> reg]
    ELSE [status |-> "ok", registry |-> reg \cup {entry}]

RECURSIVE RegisterAll(_, _)
RegisterAll(reg, entries) ==
    IF entries = <<>> THEN reg
    ELSE RegisterAll(register(reg, Head(entries)).registry, Tail(entries))

\* MCP_SERVER once the module is imported
LoadedRegistry == RegisterAll({}, Registrations)

\* the handler functions, called with the parameters the registry passes
CallHandler(handler, params) ==
    CASE handler = "spotlight" -> spotlight(params[1])
      [] handler = "summarize" -> summarize(params[1])
      [] handler = "word_count" -> word_count(params[1])
      [] handler = "mcp_primer_resource" -> mcp_primer_resource
      [] handler = "capability_resource" -> capability_resource(params[1])
      [] handler = "orientation_prompt" -> orientation_prompt(params[1])

Returns(handler, params) ==
    [status |-> "ok", handler |-> handler, params |-> params,
     value |-> CallHandler(handler, params)]

Raises(error) ==
    [status |-> error, handler |-> "none", params |-> <<>>, value |-> <<>>]

invoke_tool(reg, name, argument) ==
    LET found == Lookup(reg, "tool", name)
    IN  IF found = {} THEN Raises("UnknownCapabilityError")
        ELSE Returns((CHOOSE e \in found : TRUE).handler, <<argument>>)

get_prompt(reg, name, argument) ==
    LET found == Lookup(reg, "prompt", name)
    IN  IF found = {} THEN Raises("UnknownCapabilityError")
        ELSE Returns((CHOOSE e \in found : TRUE).handler, <<argument>>)

\* a resource identifier with a placeholder segment
IsTemplate(identifier) == \E i \in DOMAIN identifier : identifier[i] = "{"

\* the literal text before and after the placeholder
TemplateParts(template) ==
    LET open == CHOOSE i \in DOMAIN template :
                    template[i] = "{" /\ \A j \in 1..(i - 1) : template[j] # "{"
        close == CHOOSE i \in DOMAIN template :
                    template[i] = "}" /\ \A j \in 1..(i - 1) : template[j] # "}"
    IN  [prefix |-> SubSeq(template, 1, open - 1),
         suffix |-> SubSeq(template, close + 1, Len(template))]

\* the literal parts match and leave a non-empty remainder for the placeholder
Matches(template, uri) ==
    LET parts == TemplateParts(template)
    IN  /\ Len(uri) > Len(parts.prefix) + Len(parts.suffix)
        /\ SubSeq(uri, 1, Len(parts.prefix)) = parts.prefix
        /\ SubSeq(uri, Len(uri) - Len(parts.suffix) + 1, Len(uri)) = parts.suffix

Captured(template, uri) ==
    LET parts == TemplateParts(template)
    IN  SubSeq(uri, Len(parts.prefix) + 1, Len(uri) - Len(parts.suffix))

resolve_resource(reg, uri) ==
    LET resources == {e \in reg : e.kind = "resource"}
        static == {e \in resources : ~IsTemplate(e.identifier) /\ e.identifier = uri}
        templated == {e \in resources :
                         IsTemplate(e.identifier) /\ Matches(e.identifier, uri)}
    IN  IF static # {} THEN Returns((CHOOSE e \in static : TRUE).handler, <<>>)
        ELSE IF templated # {}
        THEN LET e == CHOOSE t \in templated : TRUE
             IN  Returns(e.handler, <<Captured(e.identifier, uri)>>)
        ELSE Raises("UnknownResourceError")

-----------------------------------------------------------------------------
(* Spec: the CLI driver *)

\* main() with the tools printed before the resources
MainScript_tools_first ==
    <<"banner", "chat_header", "chat", "tools_header", "tools",
      "resources_header", "resources", "prompts_header", "prompts">>

\* main() with the prompt printed before the resources
MainScript_prompts_first ==
    <<"banner", "chat_header", "chat", "prompts_header", "prompts",
      "resources_header", "resources", "tools_header", "tools">>

\* The print statements of main(), in source order
MainScript ==
    <<"banner", "chat_header", "chat", "resources_header", "resources",
      "prompts_header", "prompts", "tools_header", "tools">>

\* the print statements whose argument is a string literal
Literals ==
    [banner |-> Banner, chat_header |-> ChatHeader,
     resources_header |-> ResourcesHeader, prompts_header |-> PromptsHeader,
     tools_header |-> ToolsHeader]

\* main() goes on after a call has raised
Running_after_error == pc \in DOMAIN MainScript

\* main() has a statement left to run: it has not returned, and no exception
\* has left it (nothing in the module catches one)
Running == failedAt = NoFailure /\ pc \in DOMAIN MainScript

Statement == MainScript[pc]

Printed(section, text) == Append(out, [section |-> section, text |-> text])

Called(fn, argument) == Append(calls, [fn |-> fn, arg |-> argument])

PrintLiteral ==
    /\ Running /\ sub = "idle"
    /\ Statement \in DOMAIN Literals
    /\ out' = Printed(Statement, Literals[Statement])
    /\ pc' = pc + 1
    /\ UNCHANGED <<sub, calls, reads, outputs, failedAt>>
    /\ UNCHANGED <<registry, handlerVars, last, clientVars>>

\* ChatPromptTemplate.from_messages(...).format_messages(name=name)
format_messages(name) ==
    << [type |-> SystemRole, content |-> IntroContent],
       [type |-> HumanRole, content |-> GreetPrefix \o name \o GreetSuffix] >>

_render_prompt(name) ==
    LET messages == format_messages(name)
        lines == [i \in DOMAIN messages |->
                     Title(messages[i].type) \o LabelSeparator \o messages[i].content]
    IN  Join(lines, Newline)

RenderPromptReturns ==
    /\ Running /\ sub = "idle"
    /\ Statement = "chat"
    /\ calls' = Called("format_messages", ExplorerName)
    /\ out' = Printed("chat", _render_prompt(ExplorerName))
    /\ pc' = pc + 1
    /\ UNCHANGED <<sub, reads, outputs, failedAt>>
    /\ UNCHANGED <<registry, handlerVars, last, clientVars>>

\* Any call main() makes may raise; no statement of the module catches it
RenderPromptRaises ==
    /\ Running /\ sub = "idle"
    /\ Statement = "chat"
    /\ calls' = Called("format_messages", ExplorerName)
    /\ failedAt' = [fn |-> "format_messages", arg |-> ExplorerName]
    /\ UNCHANGED <<pc, sub, out, reads, outputs>>
    /\ UNCHANGED <<registry, handlerVars, last, clientVars>>

\* The reads runner() awaits, in source order
RunnerReads == <<PrimerUri, DeepDiveUri>>

NotStarted == [status |-> "idle", contents |-> <<>>, lines |-> <<>>, text |-> <<>>]

\* asyncio.run(runner()) starts the coroutine
EnterRunner ==
    /\ Running /\ sub = "idle"
    /\ Statement = "resources"
    /\ sub' = "runner"
    /\ reads' = [i \in DOMAIN RunnerReads |-> NotStarted]
    /\ UNCHANGED <<pc, out, calls, outputs, failedAt>>
    /\ UNCHANGED <<registry, handlerVars, last, clientVars>>

\* runner() starting every read at once, as asyncio.gather would
AwaitOrder_gather(i) == TRUE

\* runner() awaits each _read_resource before it starts the next
AwaitOrder(i) == \A j \in 1..(i - 1) : reads[j].status = "done"

\* _read_resource(uri) awaits MCP_SERVER.read_resource(uri)
StartRead(i) ==
    /\ Running /\ sub = "runner"
    /\ reads[i].status = "idle"
    /\ AwaitOrder(i)
    /\ reads' = [reads EXCEPT ![i].status = "awaiting"]
    /\ calls' = Called("read_resource", RunnerReads[i])
    /\ UNCHANGED <<pc, sub, out, outputs, failedAt>>
    /\ UNCHANGED <<registry, handlerVars, last, clientVars>>

\* What MCP_SERVER.read_resource(uri) hands back: n chunks, each holding the
\* resource's text, as str or as bytes
Chunks(text, n, types) ==
    [k \in 1..n |->
        IF types[k] = "bytes"
        THEN [content |-> [type |-> "bytes", data |-> Encode(text)]]
        ELSE [content |-> [type |-> "str", data |-> text]]]

ReadReturns(i) ==
    /\ Running /\ sub = "runner"
    /\ reads[i].status = "awaiting"
    /\ LET resolved == resolve_resource(registry, RunnerReads[i])
       IN  /\ resolved.status = "ok"
           /\ \E n \in 1..MaxChunks : \E types \in [1..n -> {"str", "bytes"}] :
                 reads' = [reads EXCEPT
                              ![i].status = "looping",
                              ![i].contents = Chunks(resolved.value, n, types)]
    /\ UNCHANGED <<pc, sub, out, calls, outputs, failedAt>>
    /\ UNCHANGED <<registry, handlerVars, last, clientVars>>

ReadRaises(i) ==
    /\ Running /\ sub = "runner"
    /\ reads[i].status = "awaiting"
    /\ failedAt' = [fn |-> "read_resource", arg |-> RunnerReads[i]]
    /\ UNCHANGED <<pc, sub, out, calls, reads, outputs>>
    /\ UNCHANGED <<registry, handlerVars, last, clientVars>>

\* one turn of the loop over the chunks
AppendChunk(i) ==
    /\ Running /\ sub = "runner"
    /\ reads[i].status = "looping"
    /\ reads[i].contents # <<>>
    /\ LET payload == Head(reads[i].contents).content
           line == IF payload.type = "bytes" THEN Decode(payload.data)
                   ELSE payload.data
       IN  reads' = [reads EXCEPT
                        ![i].contents = Tail(@),
                        ![i].lines = Append(@, line)]
    /\ UNCHANGED <<pc, sub, out, calls, outputs, failedAt>>
    /\ UNCHANGED <<registry, handlerVars, last, clientVars>>

FinishRead(i) ==
    /\ Running /\ sub = "runner"
    /\ reads[i].status = "looping"
    /\ reads[i].contents = <<>>
    /\ reads' = [reads EXCEPT
                    ![i].status = "done",
                    ![i].text = Join(reads[i].lines, Newline)]
    /\ UNCHANGED <<pc, sub, out, calls, outputs, failedAt>>
    /\ UNCHANGED <<registry, handlerVars, last, clientVars>>

\* runner() returns (primer, deep_dive); the section is built and printed
RunnerReturns ==
    /\ Running /\ sub = "runner"
    /\ \A i \in DOMAIN RunnerReads : reads[i].status = "done"
    /\ out' = Printed("resources",
                      PrimerLabel \o reads[1].text \o DeepDiveLabel \o reads[2].text)
    /\ sub' = "idle"
    /\ pc' = pc + 1
    /\ UNCHANGED <<calls, reads, outputs, failedAt>>
    /\ UNCHANGED <<registry, handlerVars, last, clientVars>>

_sample_mcp_prompt ==
    LET messages == orientation_prompt(DemoWorkspace)
        lines == [i \in DOMAIN messages |->
                     Title(messages[i].role) \o LabelSeparator \o messages[i].content]
    IN  Join(lines, Newline)

SamplePromptReturns ==
    /\ Running /\ sub = "idle"
    /\ Statement = "prompts"
    /\ calls' = Called("orientation_prompt", DemoWorkspace)
    /\ out' = Printed("prompts", _sample_mcp_prompt)
    /\ pc' = pc + 1
    /\ UNCHANGED <<sub, reads, outputs, failedAt>>
    /\ UNCHANGED <<registry, handlerVars, last, clientVars>>

SamplePromptRaises ==
    /\ Running /\ sub = "idle"
    /\ Statement = "prompts"
    /\ calls' = Called("orientation_prompt", DemoWorkspace)
    /\ failedAt' = [fn |-> "orientation_prompt", arg |-> DemoWorkspace]
    /\ UNCHANGED <<pc, sub, out, reads, outputs>>
    /\ UNCHANGED <<registry, handlerVars, last, clientVars>>

\* The calls that build the outputs list, in source order
ToolSamples(target) ==
    << [name |-> SpotlightName, fn |-> "spotlight", arg |-> target],
       [name |-> SummarizeName, fn |-> "summarize", arg |-> SummarizeSample],
       [name |-> WordCountName, fn |-> "word_count", arg |-> WordCountSample] >>

\* str(result) of a tool's result: a text, or the dict {"words": n}
Str(fn, result) ==
    IF fn = "word_count"
    THEN <<"{", "'", "w", "o", "r", "d", "s", "'", ":", " ">>
         \o Decimal(result.words) \o <<"}">>
    ELSE result

ToolReturns ==
    /\ Running /\ sub = "idle"
    /\ Statement = "tools"
    /\ Len(outputs) < Len(ToolSamples(ExplorerName))
    /\ LET sample == ToolSamples(ExplorerName)[Len(outputs) + 1]
       IN  /\ calls' = Called(sample.fn, sample.arg)
           /\ outputs' = Append(outputs,
                                [name |-> sample.name, fn |-> sample.fn,
                                 result |-> CallHandler(sample.fn, <<sample.arg>>)])
    /\ UNCHANGED <<pc, sub, out, reads, failedAt>>
    /\ UNCHANGED <<registry, handlerVars, last, clientVars>>

ToolRaises ==
    /\ Running /\ sub = "idle"
    /\ Statement = "tools"
    /\ Len(outputs) < Len(ToolSamples(ExplorerName))
    /\ LET sample == ToolSamples(ExplorerName)[Len(outputs) + 1]
       IN  /\ calls' = Called(sample.fn, sample.arg)
           /\ failedAt' = [fn |-> sample.fn, arg |-> sample.arg]
    /\ UNCHANGED <<pc, sub, out, reads, outputs>>
    /\ UNCHANGED <<registry, handlerVars, last, clientVars>>

\* the formatted list is joined and printed
FormatTools ==
    /\ Running /\ sub = "idle"
    /\ Statement = "tools"
    /\ Len(outputs) = Len(ToolSamples(ExplorerName))
    /\ LET formatted == [i \in DOMAIN outputs |->
                            outputs[i].name \o LabelSeparator
                            \o Str(outputs[i].fn, outputs[i].result)]
       IN  out' = Printed("tools", Join(formatted, Newline))
    /\ pc' = pc + 1
    /\ UNCHANGED <<sub, calls, reads, outputs, failedAt>>
    /\ UNCHANGED <<registry, handlerVars, last, clientVars>>

Init ==
    /\ registry = LoadedRegistry
    /\ pc = 1 /\ sub = "idle" /\ out = <<>> /\ calls = <<>>
    /\ reads = <<>> /\ outputs = <<>> /\ failedAt = NoFailure
    /\ arg = <<>> /\ last = NoCall
    /\ ClientIdle

Next ==
    \/ PrintLiteral
    \/ RenderPromptReturns
    \/ RenderPromptRaises
    \/ EnterRunner
    \/ \E i \in DOMAIN RunnerReads : StartRead(i)
    \/ \E i \in DOMAIN RunnerReads : ReadReturns(i)
    \/ \E i \in DOMAIN RunnerReads : ReadRaises(i)
    \/ \E i \in DOMAIN RunnerReads : AppendChunk(i)
    \/ \E i \in DOMAIN RunnerReads : FinishRead(i)
    \/ RunnerReturns
    \/ SamplePromptReturns
    \/ SamplePromptRaises
    \/ ToolReturns
    \/ ToolRaises
    \/ FormatTools

Spec == Init /\ [][Next]_vars

-----------------------------------------------------------------------------
(* SpecRegistry: a client calling into the registry built at import *)

CapabilityUriPrefix ==
    <<"r", "e", "s", "o", "u", "r", "c", "e", ":", "/", "/", "m", "c", "p",
      "/", "r", "e", "s", "o", "u", "r", "c", "e", "s", "/">>

ClientNames == {SpotlightName, SummarizeName, WordCountName, OrientationPromptName, Nope}

ClientTexts == {HelloWorld, <<>>}

ClientUris ==
    {PrimerUri, DeepDiveUri, CapabilityUriTemplate, CapabilityUriPrefix, <<>>,
     CapabilityUriPrefix \o PromptsName, CapabilityUriPrefix \o Nope,
     CapabilityUriPrefix \o Title(ToolsName), Append(PrimerUri, "/"),
     SubSeq(PrimerUri, 1, Len(PrimerUri) - 1), Tail(DeepDiveUri)}

InitRegistry ==
    /\ DriverIdle
    /\ ClientIdle
    /\ registry = LoadedRegistry
    /\ arg = <<>>
    /\ last = NoCall

\* a call through the registry: the handlers keep no state and register nothing
Observed(op, identifier, argument, outcome) ==
    /\ ncalls < MaxCalls
    /\ ncalls' = ncalls + 1
    /\ last' = [op |-> op, id |-> identifier, arg |-> argument, outcome |-> outcome]
    /\ seen' = seen \cup {[call |-> [op |-> op, id |-> identifier, arg |-> argument],
                           outcome |-> outcome]}
    /\ UNCHANGED <<registry, driverVars, handlerVars>>

InvokeTool(name, text) ==
    Observed("invoke_tool", name, text, invoke_tool(registry, name, text))

ResolveResource(uri) ==
    Observed("resolve_resource", uri, <<>>, resolve_resource(registry, uri))

GetPrompt(name, project) ==
    Observed("get_prompt", name, project, get_prompt(registry, name, project))

NextRegistry ==
    \/ \E name \in ClientNames, text \in ClientTexts : InvokeTool(name, text)
    \/ \E uri \in ClientUris : ResolveResource(uri)
    \/ \E name \in ClientNames, project \in ClientTexts : GetPrompt(name, project)

SpecRegistry == InitRegistry /\ [][NextRegistry]_vars

-----------------------------------------------------------------------------
(* SpecRegister: registrations and lookups from an empty registry *)

RegisterInputs ==
    [kind : {"tool", "prompt", "resource"},
     identifier : {SpotlightName, SummarizeName, PrimerUri},
     handler : {"spotlight", "summarize"}]

InitRegister ==
    /\ DriverIdle
    /\ ClientIdle
    /\ registry = {}
    /\ arg = <<>>
    /\ last = NoCall

Register(entry) ==
    /\ ncalls < MaxCalls
    /\ ncalls' = ncalls + 1
    /\ LET done == register(registry, entry)
       IN  /\ registry' = done.registry
           /\ last' = [op |-> "register", entry |-> entry, before |-> registry,
                       outcome |-> Raises(done.status)]
    /\ UNCHANGED <<seen, driverVars, handlerVars>>

NextRegister ==
    \/ \E entry \in RegisterInputs : Register(entry)
    \/ \E name \in ClientNames, text \in ClientTexts : InvokeTool(name, text)
    \/ \E name \in ClientNames, project \in ClientTexts : GetPrompt(name, project)

SpecRegister == InitRegister /\ [][NextRegister]_vars

-----------------------------------------------------------------------------
(* Properties *)

IsPrefix(s, t) == Len(s) <= Len(t) /\ s = SubSeq(t, 1, Len(s))

MainReturned == pc = Len(MainScript) + 1

HasFailed == failedAt # NoFailure

\* the text up to, and without, the first period; the whole text if it has none
FirstSegment(t) ==
    LET periods == {i \in DOMAIN t : t[i] = "."}
    IN  IF periods = {} THEN t
        ELSE SubSeq(t, 1, (CHOOSE i \in periods : \A j \in periods : i <= j) - 1)

\* the text from its first to its last character that is not whitespace
Trimmed(t) ==
    LET solid == {i \in DOMAIN t : ~IsSpace(t[i])}
    IN  IF solid = {} THEN <<>>
        ELSE SubSeq(t, CHOOSE i \in solid : \A j \in solid : i <= j,
                       CHOOSE i \in solid : \A j \in solid : i >= j)

SummaryOfHelloWorld ==
    <<"S", "u", "m", "m", "a", "r", "y", ":", " ", "H", "e", "l", "l", "o",
      " ", "w", "o", "r", "l", "d", ".">>

\* C1: resolve_resource(u) calls the primer handler without arguments when u is
\* the static identifier; calls the capability handler with the remainder when
\* u is the literal prefix followed by a non-empty remainder (".../prompts"
\* gives the prompts one-liner, ".../nope" the handler's unknown-capability
\* text); and otherwise fails with UnknownResourceError, calling no handler.
ResolveResourceContract ==
    last.op = "resolve_resource" =>
        LET uri == last.id
            n == Len(CapabilityUriPrefix)
            rest == SubSeq(uri, n + 1, Len(uri))
        IN  IF uri = PrimerUri
            THEN last.outcome = [status |-> "ok", handler |-> "mcp_primer_resource",
                                 params |-> <<>>, value |-> PrimerText]
            ELSE IF Len(uri) > n /\ SubSeq(uri, 1, n) = CapabilityUriPrefix
            THEN /\ last.outcome.status = "ok"
                 /\ last.outcome.handler = "capability_resource"
                 /\ last.outcome.params = <<rest>>
                 /\ rest = PromptsName => last.outcome.value = PromptsText
                 /\ rest = Nope => last.outcome.value = UnknownCapability
            ELSE /\ last.outcome.status = "UnknownResourceError"
                 /\ last.outcome.handler = "none"

\* a template match answered by the handler's unknown-capability text, after a
\* static match and a failed resolution
ResolveResourceWitness ==
    /\ last.op = "resolve_resource"
    /\ last.id = CapabilityUriPrefix \o Nope
    /\ last.outcome.value = UnknownCapability
    /\ \E s \in seen : s.outcome.handler = "mcp_primer_resource"
    /\ \E s \in seen : s.outcome.status = "UnknownResourceError"

Sections == <<"banner", "chat", "resources", "prompts", "tools">>

PrintedSections ==
    LET printed == SelectSeq(out, LAMBDA p : \E i \in DOMAIN Sections :
                                                  Sections[i] = p.section)
    IN  [i \in DOMAIN printed |-> printed[i].section]

\* C2: the sections are printed in the order banner, scripted chat, resources,
\* prompt, tools, each once, and a run that returns has printed them all.
SectionsInOrder ==
    /\ IsPrefix(PrintedSections, Sections)
    /\ MainReturned => PrintedSections = Sections

SectionsWitness == MainReturned /\ ~HasFailed /\ Len(out) = Len(MainScript)

CalledFunctions == [i \in DOMAIN calls |-> calls[i].fn]

ToolFunctions == {"spotlight", "summarize", "word_count"}

\* C3 as stated: every tool invocation precedes every resource resolution, and
\* both resource resolutions precede the prompt retrieval.
ToolsBeforeResources ==
    \A i \in DOMAIN calls :
        /\ calls[i].fn = "read_resource" =>
               \A t \in ToolFunctions : \E j \in 1..(i - 1) : calls[j].fn = t
        /\ calls[i].fn = "orientation_prompt" =>
               Cardinality({j \in 1..(i - 1) : calls[j].fn = "read_resource"}) = 2

\* C3: the invocations are made in the order prompt rendering, the two
\* resource reads (primer, then tools), the prompt retrieval, the three tools
\* (spotlight, summarize, word_count).
InvocationOrder ==
    /\ IsPrefix(calls,
                << [fn |-> "format_messages", arg |-> ExplorerName],
                   [fn |-> "read_resource", arg |-> PrimerUri],
                   [fn |-> "read_resource", arg |-> DeepDiveUri],
                   [fn |-> "orientation_prompt", arg |-> DemoWorkspace],
                   [fn |-> "spotlight", arg |-> ExplorerName],
                   [fn |-> "summarize", arg |-> SummarizeSample],
                   [fn |-> "word_count", arg |-> WordCountSample] >>)
    /\ MainReturned => Len(calls) = 7

InvocationWitness == MainReturned /\ CalledFunctions[Len(calls)] = "word_count"

\* C4 as stated: a run that ends in failure has printed none of the result
\* sections.
NoPartialOutput ==
    HasFailed => \A i \in DOMAIN out : out[i].section \notin {"chat", "resources", "prompts", "tools"}

\* the statement of main() that makes the call
StatementOf(fn) ==
    CASE fn = "format_messages" -> "chat"
      [] fn = "read_resource" -> "resources"
      [] fn = "orientation_prompt" -> "prompts"
      [] fn \in ToolFunctions -> "tools"

\* C4: once a call has failed, main() stands at the statement that made it and
\* never returns; the failing call is the last one made; and the output is what
\* the statements before it printed, a proper prefix of a full run's.
StopsAtFirstFailure ==
    HasFailed =>
        /\ ~MainReturned
        /\ Statement = StatementOf(failedAt.fn)
        /\ calls[Len(calls)] = failedAt
        /\ Len(out) = pc - 1
        /\ \A i \in DOMAIN out : out[i].section = MainScript[i]

StopsWitness ==
    /\ failedAt.fn = "word_count"
    /\ PrintedSections = <<"banner", "chat", "resources", "prompts">>

\* the exact six capabilities the decorators register
RegisteredAtImport ==
    {[kind |-> "tool", identifier |-> SpotlightName, handler |-> "spotlight"],
     [kind |-> "tool", identifier |-> SummarizeName, handler |-> "summarize"],
     [kind |-> "tool", identifier |-> WordCountName, handler |-> "word_count"],
     [kind |-> "resource", identifier |-> PrimerUri, handler |-> "mcp_primer_resource"],
     [kind |-> "resource", identifier |-> CapabilityUriTemplate,
      handler |-> "capability_resource"],
     [kind |-> "prompt", identifier |-> OrientationPromptName,
      handler |-> "orientation_prompt"]}

UnknownAndDuplicateRejected ==
    /\ last.op \in {"invoke_tool", "get_prompt"} =>
           LET kind == IF last.op = "invoke_tool" THEN "tool" ELSE "prompt"
           IN  (\A e \in registry : ~(e.kind = kind /\ e.identifier = last.id)) =>
                   /\ last.outcome.status = "UnknownCapabilityError"
                   /\ last.outcome.handler = "none"
    /\ last.op = "register" =>
           ((\E e \in last.before : /\ e.kind = last.entry.kind
                                    /\ e.identifier = last.entry.identifier) =>
               /\ last.outcome.status = "DuplicateCapabilityError"
               /\ registry = last.before)

\* a second handler offered for a registered pair was refused, after a lookup
\* of an unregistered name
DuplicateWitness ==
    /\ last.op = "register"
    /\ last.outcome.status = "DuplicateCapabilityError"
    /\ last.entry \notin registry
    /\ \E s \in seen : s.outcome.status = "UnknownCapabilityError"

\* C7: summarize(t) is the sentinel when the trimmed first period-separated
\* segment of t is empty and otherwise "Summary: " + segment + "."; the code's
\* strip-split-strip gives what split-then-trim gives.
SummarizeFirstSegment ==
    last.op = "summarize" =>
        LET s == Trimmed(FirstSegment(last.arg))
        IN  /\ s = <<>> => last.result = NoContent
            /\ s # <<>> => last.result = SummaryPrefix \o s \o <<".">>
            /\ (\A i \in DOMAIN last.arg : last.arg[i] # ".") =>
                   last.result = IF Trimmed(last.arg) = <<>> THEN NoContent
                                 ELSE SummaryPrefix \o Trimmed(last.arg) \o <<".">>
            /\ last.arg = HelloWorld => last.result = SummaryOfHelloWorld

\* a text with whitespace on both sides of its first segment and more after
\* the period
SummarizeWitness ==
    /\ last.op = "summarize"
    /\ last.arg = <<" ", "a", "\n", ".", "T">>
    /\ last.result = SummaryPrefix \o <<"a", ".">>

\* C8: word_count(t) is a mapping with the one key "words", whose value is the
\* number of maximal runs of non-whitespace characters of t.
WordCountRuns ==
    last.op = "word_count" =>
        LET starts == {i \in DOMAIN last.arg :
                          /\ ~IsSpace(last.arg[i])
                          /\ (i = 1 \/ IsSpace(last.arg[i - 1]))}
        IN  /\ DOMAIN last.result = {"words"}
            /\ last.result.words = Cardinality(starts)
            /\ (\A i \in DOMAIN last.arg : IsSpace(last.arg[i])) =>
                   last.result = [words |-> 0]

WordCountWitness ==
    /\ last.op = "word_count"
    /\ last.arg = <<"a", "\n", " ", "T">>
    /\ last.result = [words |-> 2]

SameIgnoringCase(s, t) ==
    /\ Len(s) = Len(t)
    /\ \A i \in DOMAIN s :
           \/ s[i] = t[i]
           \/ \E k \in DOMAIN LowerLetters :
                  {s[i], t[i]} = {LowerLetters[k], UpperLetters[k]}

SwapCase(s) ==
    [i \in DOMAIN s |->
        IF \E k \in DOMAIN LowerLetters : LowerLetters[k] = s[i]
        THEN UpperLetters[CHOOSE k \in DOMAIN LowerLetters : LowerLetters[k] = s[i]]
        ELSE IF \E k \in DOMAIN UpperLetters : UpperLetters[k] = s[i]
        THEN LowerLetters[CHOOSE k \in DOMAIN UpperLetters : UpperLetters[k] = s[i]]
        ELSE s[i]]

\* C9: capability_resource(c) is the description of the capability name that c
\* spells in any letter case, and "Unknown capability." for every other c;
\* respelling c in the other case changes nothing.
CapabilityIgnoresCase ==
    last.op = "capability_resource" =>
        /\ last.result =
               IF SameIgnoringCase(last.arg, ResourcesName) THEN ResourcesText
               ELSE IF SameIgnoringCase(last.arg, ToolsName) THEN ToolsText
               ELSE IF SameIgnoringCase(last.arg, PromptsName) THEN PromptsText
               ELSE UnknownCapability
        /\ last.result = capability_resource(SwapCase(last.arg))

CapabilityWitness ==
    /\ last.op = "capability_resource"
    /\ last.arg = <<"T", "o", "O", "l", "S">>
    /\ last.result = ToolsText

InFlight == {i \in DOMAIN reads : reads[i].status \in {"awaiting", "looping"}}

\* C10: at most one read is in flight, and the read of the tools page starts
\* only after the read of the primer is complete; while the runner is active
\* the driver prints nothing and calls nothing but the reads; the section
\* printed on resuming holds the primer's text before the deep dive's.
ReadsAreSequential ==
    /\ Cardinality(InFlight) <= 1
    /\ reads # <<>> => (reads[2].status # "idle" => reads[1].status = "done")
    /\ sub = "runner" =>
           /\ out[Len(out)].section = "resources_header"
           /\ \A i \in DOMAIN calls : calls[i].fn \in {"format_messages", "read_resource"}
    /\ \A i \in DOMAIN out :
           out[i].section = "resources" =>
               /\ \A r \in DOMAIN reads : reads[r].status = "done"
               /\ IsPrefix(PrimerText, reads[1].text)
               /\ IsPrefix(ToolsText, reads[2].text)
               /\ out[i].text = PrimerLabel \o reads[1].text
                                \o DeepDiveLabel \o reads[2].text

\* the second read is in its loop, the first one done with more than one chunk
ReadsWitness ==
    /\ sub = "runner"
    /\ reads[1].status = "done" /\ Len(reads[1].lines) > 1
    /\ reads[2].status = "looping" /\ reads[2].lines # <<>>

=============================================================================
